---- MODULE Spec2Model ----
(***************************************************************************)
(* Alignment comparison engine of the alignment viewer:                    *)
(*   find_differences              (position classifier)                   *)
(*   calculate_pairwise_distances  (pairwise SNP distance engine)          *)
(* An alignment is the Python dict name -> sequence string; it is modelled *)
(* as a sequence of records [name, seq] in insertion order, seq being a    *)
(* sequence of one-character strings.  Python positions are 0-based, so    *)
(* seq[pos] of the source is seq[pos + 1] here.                            *)
(***************************************************************************)
EXTENDS Integers, Sequences, FiniteSets, TLC

VARIABLES sequences,            \* the mapping handed to the engine
          fd_outcome,           \* find_differences: not_called / returned / IndexError
          differences,          \* results of find_differences
          gap_positions,
          ambiguous_positions,
          cpd_outcome,          \* calculate_pairwise_distances: not_called / returned / IndexError
          pairwise_distances,   \* results of calculate_pairwise_distances
          distance_matrix,
          seq_names_ordered,
          html_content,         \* result of generate_html_visualization: the class of every cell
          pc,                   \* position of the upload flow ("direct": the engine is called directly)
          content,              \* the uploaded file, decoded
          settings,             \* sidebar: auto_align, alignment_tool
          files,                \* temporary files that exist
          aligned,              \* (aligned_content, error) returned by the aligner wrapper
          shown                 \* st.error / st.warning / st.success messages, in order

flow_vars == <<pc, content, settings, files, aligned, shown>>

vars == <<sequences, fd_outcome, differences, gap_positions, ambiguous_positions,
          cpd_outcome, pairwise_distances, distance_matrix, seq_names_ordered,
          html_content, pc, content, settings, files, aligned, shown>>

----------------------------------------------------------------------------
(* Bounds of the model *)

MaxSeqs == 3

MaxLen == 3

MaxCells == 6

\* cells of the alignments of SpecView
MaxViewCells == 4

\* lines of an uploaded file and of the output of the aligner
MaxLines == 4

(* Characters the inputs are drawn from: two bases, one of them in both    *)
(* cases, the gap, and an ambiguity code in lower case.                    *)
Alphabet == {"A", "a", "C", "-", "n"}

(* Characters of the inputs of SpecView: closed under change of case.       *)
ViewAlphabet == {"A", "a", "C", "c", "-", "N", "n"}

----------------------------------------------------------------------------
(* str.upper() on one character *)

LowerToUpper ==
    [c \in {"a", "c", "g", "t", "r", "y", "s", "w", "k", "m", "b", "d", "h", "v", "n"} |->
        CASE c = "a" -> "A" [] c = "c" -> "C" [] c = "g" -> "G" [] c = "t" -> "T"
          [] c = "r" -> "R" [] c = "y" -> "Y" [] c = "s" -> "S" [] c = "w" -> "W"
          [] c = "k" -> "K" [] c = "m" -> "M" [] c = "b" -> "B" [] c = "d" -> "D"
          [] c = "h" -> "H" [] c = "v" -> "V" [] c = "n" -> "N"]

upper(c) == IF c \in DOMAIN LowerToUpper THEN LowerToUpper[c] ELSE c

ambiguity_codes == {"R", "Y", "S", "W", "K", "M", "B", "D", "H", "V", "N"}

----------------------------------------------------------------------------
(* Python dict / list helpers *)

\* the identifiers of the inputs: s1, s2, ...
Name(k) == "s" \o ToString(k)

\* d[k] = v on a dict modelled as a function
SetItem(d, k, v) == [x \in (DOMAIN d) \cup {k} |-> IF x = k THEN v ELSE d[x]]

\* sorted(sequences.keys()) on the identifiers s1, s2, ...
Keys_sorted(seqs) == [k \in 1..Len(seqs) |-> Name(k)]

\* list(sequences.keys())
Keys(seqs) == [k \in 1..Len(seqs) |-> seqs[k].name]

\* list(sequences.values())
Values(seqs) == [k \in 1..Len(seqs) |-> seqs[k].seq]

\* sequences[name]
GetItem(seqs, name) == seqs[CHOOSE k \in 1..Len(seqs) : seqs[k].name = name].seq

----------------------------------------------------------------------------
(* read_aligned_fasta_from_string and check_if_aligned.  A string is a     *)
(* sequence of one-character strings.                                      *)

Whitespace == {" ", "\n", "\t", "\r"}

\* str.strip()
RECURSIVE lstrip(_)
lstrip(str) == IF str # <<>> /\ Head(str) \in Whitespace THEN lstrip(Tail(str)) ELSE str

RECURSIVE rstrip(_)
rstrip(str) ==
    IF str # <<>> /\ str[Len(str)] \in Whitespace
    THEN rstrip(SubSeq(str, 1, Len(str) - 1))
    ELSE str

strip(str) == rstrip(lstrip(str))

\* str.split('\n'): the list of the lines, at least one
RECURSIVE split_lines(_, _, _)
split_lines(str, line, acc) ==
    IF str = <<>> THEN Append(acc, line)
    ELSE IF Head(str) = "\n" THEN split_lines(Tail(str), <<>>, Append(acc, line))
    ELSE split_lines(Tail(str), Append(line, Head(str)), acc)

\* ''.join(current_seq)
RECURSIVE join(_)
join(parts) == IF parts = <<>> THEN <<>> ELSE Head(parts) \o join(Tail(parts))

\* sequences[name] = seq: a new key goes to the end, an old key keeps its place
DictSet(seqs, name, seq) ==
    IF \E k \in 1..Len(seqs) : seqs[k].name = name
    THEN [k \in 1..Len(seqs) |-> IF seqs[k].name = name
                                  THEN [name |-> name, seq |-> seq] ELSE seqs[k]]
    ELSE Append(seqs, [name |-> name, seq |-> seq])

\* the loop over the lines (source lines 19-27); current_name is <<>> both
\* for None and for the empty name, which the code tests alike
RECURSIVE parse_lines(_, _)
parse_lines(lines, st) ==
    IF lines = <<>> THEN st
    ELSE LET line == strip(Head(lines))
         IN IF line # <<>> /\ Head(line) = ">"
            THEN parse_lines(Tail(lines),
                    [sequences    |-> IF st.current_name # <<>>
                                      THEN DictSet(st.sequences, st.current_name,
                                                   join(st.current_seq))
                                      ELSE st.sequences,
                     current_name |-> Tail(line),
                     current_seq  |-> <<>>])
            ELSE parse_lines(Tail(lines), [st EXCEPT !.current_seq = Append(@, line)])

read_aligned_fasta_from_string(fasta_content) ==
    LET st == parse_lines(split_lines(strip(fasta_content), <<>>, <<>>),
                          [sequences |-> <<>>, current_name |-> <<>>, current_seq |-> <<>>])
    IN IF st.current_name # <<>>
       THEN DictSet(st.sequences, st.current_name, join(st.current_seq))
       ELSE st.sequences

\* check_if_aligned: all sequences of one length; False on the empty mapping
check_if_aligned(seqs) ==
    IF Len(seqs) = 0 THEN FALSE
    ELSE Cardinality({Len(seqs[k].seq) : k \in 1..Len(seqs)}) = 1

----------------------------------------------------------------------------
(* align_sequences_mafft and align_sequences_muscle.  The run of the tool  *)
(* is the environment's: run is how subprocess.run ends, wrote whether the *)
(* tool left the '.aligned' file behind, read how reading that file ends,  *)
(* out the text the tool produced.                                         *)

RunOutcomes == {"FileNotFoundError", "TimeoutExpired", "nonzero", "zero"}

ReadOutcomes == {"ok", "unreadable"}

NotFoundMessage(tool) == tool \o " not found. Please install " \o tool \o " first."

TimeoutMessage == "Alignment timed out (>5 minutes). Try with fewer/shorter sequences."

FailedMessage(tool) == tool \o " failed: <stderr>"

\* os.unlink(f): raises FileNotFoundError when f does not exist
Unlink(fs, f) == [files |-> fs \ {f}, raised |-> f \notin fs]

\* the finally clause: each of the files is unlinked if os.path.exists says
\* it is there, so none of these unlinks raises
Finally(r, fs_names) ==
    LET existing == fs_names \cap r.files
    IN [r EXCEPT !.files = @ \ existing]

\* what a path through the try block leaves: the returned pair, the files
\* that exist, whether an os.unlink raised on the way, and whether the
\* second subprocess.run (MUSCLE v3 syntax) was made
Returned(text, is_none, error, fs) ==
    [aligned_content |-> text, content_is_none |-> is_none, error |-> error,
     files |-> fs, raised |-> FALSE, v3_tried |-> FALSE]

\* an os.unlink in the try block raised FileNotFoundError, which the first
\* except clause turns into the 'not found' message
UnlinkRaised(tool, fs) ==
    [Returned(<<>>, TRUE, NotFoundMessage(tool), fs) EXCEPT !.raised = TRUE]

\* align_sequences_mafft (source lines 41-76); fs is the set of existing
\* temporary files when the function is entered
align_sequences_mafft(fs, run, out) ==
    LET fs1 == fs \cup {"input_file"}                       \* lines 43-45
        try == CASE run = "FileNotFoundError" ->
                      Returned(<<>>, TRUE, NotFoundMessage("MAFFT"), fs1)
                 [] run = "TimeoutExpired" ->
                      Returned(<<>>, TRUE, TimeoutMessage, fs1)
                 [] run = "nonzero" ->
                      Returned(<<>>, TRUE, FailedMessage("MAFFT"), fs1)
                 [] run = "zero" ->
                      LET u == Unlink(fs1, "input_file")     \* line 64
                      IN IF u.raised
                         THEN UnlinkRaised("MAFFT", u.files)
                         ELSE Returned(out, FALSE, "None", u.files)
    IN Finally(try, {"input_file"})

\* align_sequences_muscle with output_file left out of the finally clause
align_sequences_muscle_input_only_finally(fs, run1, wrote1, run2, wrote2, read, out) ==
    LET fs1 == fs \cup {"input_file"}
        fs2 == IF wrote1 THEN fs1 \cup {"output_file"} ELSE fs1
        fs3 == IF run1 = "nonzero" /\ wrote2 THEN fs2 \cup {"output_file"} ELSE fs2
        run == IF run1 = "nonzero" THEN run2 ELSE run1
        v3  == run1 = "nonzero"
        try == CASE run = "FileNotFoundError" ->
                      Returned(<<>>, TRUE, NotFoundMessage("MUSCLE"), fs3)
                 [] run = "TimeoutExpired" ->
                      Returned(<<>>, TRUE, TimeoutMessage, fs3)
                 [] run = "nonzero" ->
                      Returned(<<>>, TRUE, FailedMessage("MUSCLE"), fs3)
                 [] run = "zero" ->
                      IF "output_file" \notin fs3
                      THEN Returned(<<>>, TRUE, NotFoundMessage("MUSCLE"), fs3)
                      ELSE IF read = "unreadable"
                      THEN Returned(<<>>, TRUE, "<message of the read error>", fs3)
                      ELSE LET u1 == Unlink(fs3, "input_file")
                               u2 == Unlink(u1.files, "output_file")
                           IN IF u1.raised
                              THEN UnlinkRaised("MUSCLE", u1.files)
                              ELSE IF u2.raised
                              THEN UnlinkRaised("MUSCLE", u2.files)
                              ELSE Returned(out, FALSE, "None", u2.files)
    IN Finally([try EXCEPT !.v3_tried = v3], {"input_file"})

\* align_sequences_muscle (source lines 78-126): the v3 syntax is run when
\* the v5 syntax exits non-zero
align_sequences_muscle(fs, run1, wrote1, run2, wrote2, read, out) ==
    LET fs1 == fs \cup {"input_file"}                       \* lines 80-82
        fs2 == IF wrote1 THEN fs1 \cup {"output_file"} ELSE fs1            \* lines 88-93
        fs3 == IF run1 = "nonzero" /\ wrote2 THEN fs2 \cup {"output_file"} ELSE fs2
        run == IF run1 = "nonzero" THEN run2 ELSE run1       \* lines 95-102
        v3  == run1 = "nonzero"                              \* line 95
        try == CASE run = "FileNotFoundError" ->
                      Returned(<<>>, TRUE, NotFoundMessage("MUSCLE"), fs3)
                 [] run = "TimeoutExpired" ->
                      Returned(<<>>, TRUE, TimeoutMessage, fs3)
                 [] run = "nonzero" ->
                      Returned(<<>>, TRUE, FailedMessage("MUSCLE"), fs3)
                 [] run = "zero" ->
                      IF "output_file" \notin fs3           \* open() raises FileNotFoundError
                      THEN Returned(<<>>, TRUE, NotFoundMessage("MUSCLE"), fs3)
                      ELSE IF read = "unreadable"            \* f.read() raises
                      THEN Returned(<<>>, TRUE, "<message of the read error>", fs3)
                      ELSE LET u1 == Unlink(fs3, "input_file")          \* line 111
                               u2 == Unlink(u1.files, "output_file")    \* line 112
                           IN IF u1.raised
                              THEN UnlinkRaised("MUSCLE", u1.files)
                              ELSE IF u2.raised
                              THEN UnlinkRaised("MUSCLE", u2.files)
                              ELSE Returned(out, FALSE, "None", u2.files)
    IN Finally([try EXCEPT !.v3_tried = v3], {"input_file", "output_file"})

----------------------------------------------------------------------------
(* find_differences *)

\* fd_step with the ambiguity test ahead of the gap test
fd_step_ambiguity_first(acc, pos, bases_set) ==
    LET has_gap       == "-" \in bases_set
        has_ambiguity == (bases_set \cap ambiguity_codes) # {}
    IN IF has_ambiguity
          THEN [acc EXCEPT !.ambiguous_positions = Append(@, pos)]
       ELSE IF has_gap
          THEN [acc EXCEPT !.gap_positions = Append(@, pos)]
       ELSE IF Cardinality(bases_set) > 1
          THEN [acc EXCEPT !.differences = Append(@, pos)]
       ELSE acc

\* fd_step with three independent tests in place of the if / elif / else chain
fd_step_independent_ifs(acc, pos, bases_set) ==
    LET has_gap       == "-" \in bases_set
        has_ambiguity == (bases_set \cap ambiguity_codes) # {}
        a1 == IF has_gap THEN [acc EXCEPT !.gap_positions = Append(@, pos)] ELSE acc
        a2 == IF has_ambiguity THEN [a1 EXCEPT !.ambiguous_positions = Append(@, pos)] ELSE a1
    IN IF Cardinality(bases_set) > 1 THEN [a2 EXCEPT !.differences = Append(@, pos)] ELSE a2

\* the classification of one column (source lines 201-210)
fd_step(acc, pos, bases_set) ==
    LET has_gap       == "-" \in bases_set
        has_ambiguity == (bases_set \cap ambiguity_codes) # {}
    IN IF has_gap
          THEN [acc EXCEPT !.gap_positions = Append(@, pos)]
       ELSE IF has_ambiguity
          THEN [acc EXCEPT !.ambiguous_positions = Append(@, pos)]
       ELSE IF Cardinality(bases_set) > 1
          THEN [acc EXCEPT !.differences = Append(@, pos)]
       ELSE acc

\* the loop over the columns (source lines 197-210); seq[pos] raises
\* IndexError when a sequence is shorter than the first one
RECURSIVE fd_loop(_, _, _, _)
fd_loop(seq_list, align_len, pos, acc) ==
    IF pos >= align_len THEN acc
    ELSE IF \E k \in 1..Len(seq_list) : Len(seq_list[k]) <= pos
         THEN [acc EXCEPT !.outcome = "IndexError"]
    ELSE LET bases     == [k \in 1..Len(seq_list) |-> upper(seq_list[k][pos + 1])]
             bases_set == {bases[k] : k \in 1..Len(seq_list)}
         IN fd_loop(seq_list, align_len, pos + 1, fd_step(acc, pos, bases_set))

\* find_differences without the "if not sequences" guard: seq_list[0] raises
find_differences_no_empty_guard(seqs) ==
    LET empty == [outcome |-> "returned", differences |-> <<>>,
                  gap_positions |-> <<>>, ambiguous_positions |-> <<>>]
    IN IF Len(seqs) = 0 THEN [empty EXCEPT !.outcome = "IndexError"]
       ELSE LET seq_list  == Values(seqs)
                align_len == Len(seq_list[1])
            IN fd_loop(seq_list, align_len, 0, empty)

find_differences(seqs) ==
    LET empty == [outcome |-> "returned", differences |-> <<>>,
                  gap_positions |-> <<>>, ambiguous_positions |-> <<>>]
    IN IF Len(seqs) = 0 THEN empty
       ELSE LET seq_list  == Values(seqs)
                align_len == Len(seq_list[1])
            IN fd_loop(seq_list, align_len, 0, empty)

----------------------------------------------------------------------------
(* calculate_pairwise_distances *)

\* The identity is a Python float; it is modelled as an exact fraction
\* [num, den] in lowest terms with den > 0.
RECURSIVE GCD(_, _)
GCD(a, b) == IF b = 0 THEN a ELSE GCD(b, a % b)

Frac(n, d) == LET g == GCD(n, d) IN [num |-> n \div g, den |-> d \div g]

\* identity_of as 100 * snps / usable_positions, the mismatch percentage
identity_of_mismatch_percent(snps, usable_positions) ==
    IF usable_positions > 0
    THEN LET q == Frac(snps, usable_positions)
         IN Frac(100 * q.num, q.den)
    ELSE [num |-> 0, den |-> 1]

\* 100 * (1 - snps / usable_positions) if usable_positions > 0 else 0
identity_of(snps, usable_positions) ==
    IF usable_positions > 0
    THEN LET q    == Frac(snps, usable_positions)              \* snps / usable_positions
             diff == Frac(q.den - q.num, q.den)                \* 1 - q
         IN Frac(100 * diff.num, diff.den)                     \* 100 * diff
    ELSE [num |-> 0, den |-> 1]

\* pair_step without the ambiguity-code skip
pair_step_no_ambiguity_skip(base1, base2, acc) ==
    IF base1 = "-" \/ base2 = "-" THEN acc
    ELSE [acc EXCEPT !.usable_positions = @ + 1,
                     !.snps = IF base1 # base2 THEN @ + 1 ELSE @]

\* pair_step with the mismatch counted ahead of the gap and ambiguity skips
pair_step_count_before_skip(base1, base2, acc) ==
    LET counted == [acc EXCEPT !.snps = IF base1 # base2 THEN @ + 1 ELSE @]
    IN IF base1 = "-" \/ base2 = "-" THEN counted
       ELSE IF base1 \in ambiguity_codes \/ base2 \in ambiguity_codes THEN counted
       ELSE [counted EXCEPT !.usable_positions = @ + 1]

\* pair_step counting a column as an SNP when the two bases are equal
pair_step_inverted_compare(base1, base2, acc) ==
    IF base1 = "-" \/ base2 = "-" THEN acc
    ELSE IF base1 \in ambiguity_codes \/ base2 \in ambiguity_codes THEN acc
    ELSE [acc EXCEPT !.usable_positions = @ + 1,
                     !.snps = IF base1 = base2 THEN @ + 1 ELSE @]

\* pair_step with usable_positions incremented ahead of the ambiguity skip
pair_step_usable_before_ambiguity(base1, base2, acc) ==
    IF base1 = "-" \/ base2 = "-" THEN acc
    ELSE IF base1 \in ambiguity_codes \/ base2 \in ambiguity_codes
         THEN [acc EXCEPT !.usable_positions = @ + 1]
    ELSE [acc EXCEPT !.usable_positions = @ + 1,
                     !.snps = IF base1 # base2 THEN @ + 1 ELSE @]

\* one column of one pair, on the uppercased bases (source lines 154-165)
pair_step(base1, base2, acc) ==
    IF base1 = "-" \/ base2 = "-" THEN acc
    ELSE IF base1 \in ambiguity_codes \/ base2 \in ambiguity_codes THEN acc
    ELSE [acc EXCEPT !.usable_positions = @ + 1,
                     !.snps = IF base1 # base2 THEN @ + 1 ELSE @]

\* pair_loop comparing the bases as they are, without .upper()
RECURSIVE pair_loop_no_upper(_, _, _, _)
pair_loop_no_upper(seq1, seq2, pos, acc) ==
    IF pos >= Len(seq1) THEN acc
    ELSE IF Len(seq2) <= pos THEN [acc EXCEPT !.outcome = "IndexError"]
    ELSE pair_loop_no_upper(seq1, seq2, pos + 1,
                            pair_step(seq1[pos + 1], seq2[pos + 1], acc))

\* the loop over the columns of one pair (source lines 147-165); seq2[pos]
\* raises IndexError when seq2 is shorter than seq1
RECURSIVE pair_loop(_, _, _, _)
pair_loop(seq1, seq2, pos, acc) ==
    IF pos >= Len(seq1) THEN acc
    ELSE IF Len(seq2) <= pos THEN [acc EXCEPT !.outcome = "IndexError"]
    ELSE LET base1 == upper(seq1[pos + 1])
             base2 == upper(seq2[pos + 1])
         IN pair_loop(seq1, seq2, pos + 1, pair_step(base1, base2, acc))

\* store_pair filling the matrix in one direction only
store_pair_one_direction(acc, name1, name2, snps, usable_positions) ==
    LET identity == identity_of(snps, usable_positions)
        rec == [seq1 |-> name1, seq2 |-> name2, snps |-> snps,
                usable_positions |-> usable_positions, identity |-> identity]
        m1  == SetItem(acc.distance_matrix, name1,
                       SetItem(acc.distance_matrix[name1], name2, snps))
    IN [acc EXCEPT !.pairwise_distances = Append(@, rec),
                   !.distance_matrix = m1]

\* the record and the two matrix entries of one pair (source lines 167-179)
store_pair(acc, name1, name2, snps, usable_positions) ==
    LET identity == identity_of(snps, usable_positions)
        rec == [seq1 |-> name1, seq2 |-> name2, snps |-> snps,
                usable_positions |-> usable_positions, identity |-> identity]
        m1  == SetItem(acc.distance_matrix, name1,
                       SetItem(acc.distance_matrix[name1], name2, snps))
        m2  == SetItem(m1, name2, SetItem(m1[name2], name1, snps))
    IN [acc EXCEPT !.pairwise_distances = Append(@, rec),
                   !.distance_matrix = m2]

\* the double loop over i < j (source lines 140-179); i, j are the 0-based
\* indices of the source
RECURSIVE cpd_loop(_, _, _, _, _)
cpd_loop(seqs, seq_names, i, j, acc) ==
    IF i >= Len(seq_names) THEN acc
    ELSE IF j >= Len(seq_names) THEN cpd_loop(seqs, seq_names, i + 1, i + 2, acc)
    ELSE LET name1 == seq_names[i + 1]
             name2 == seq_names[j + 1]
             seq1  == GetItem(seqs, name1)
             seq2  == GetItem(seqs, name2)
             cnt   == pair_loop(seq1, seq2, 0,
                                [outcome |-> "returned", snps |-> 0, usable_positions |-> 0])
         IN IF cnt.outcome # "returned"
            THEN [acc EXCEPT !.outcome = cnt.outcome]
            ELSE cpd_loop(seqs, seq_names, i, j + 1,
                          store_pair(acc, name1, name2, cnt.snps, cnt.usable_positions))

\* calculate_pairwise_distances with a guard that raises on fewer than 2 sequences
calculate_pairwise_distances_guarded(seqs) ==
    LET seq_names == Keys(seqs)
        init_matrix == [name \in {seq_names[k] : k \in 1..Len(seq_names)} |-> <<>>]
        start == [outcome |-> "returned", pairwise_distances |-> <<>>,
                  distance_matrix |-> init_matrix, seq_names |-> seq_names]
    IN IF Len(seq_names) < 2
       THEN [start EXCEPT !.outcome = "InsufficientSequencesError"]
       ELSE cpd_loop(seqs, seq_names, 0, 1, start)

calculate_pairwise_distances(seqs) ==
    LET seq_names == Keys(seqs)
        init_matrix == [name \in {seq_names[k] : k \in 1..Len(seq_names)} |-> <<>>]
    IN cpd_loop(seqs, seq_names, 0, 1,
                [outcome |-> "returned", pairwise_distances |-> <<>>,
                 distance_matrix |-> init_matrix, seq_names |-> seq_names])

----------------------------------------------------------------------------
(* generate_html_visualization: the position-by-position view *)

\* the class of the span of one cell (source lines 535-542)
cell_class(pos, base, ambig_set, diff_set) ==
    IF pos \in ambig_set THEN "ambig"
    ELSE IF pos \in diff_set THEN "diff"
    ELSE IF base = "-" THEN "gap"
    ELSE "match"

\* The spans of the view, one row per name of seq_names, one span per
\* character of seq[chunk_start:chunk_end] over all chunks; the grouping of
\* the columns into chunks of 100 is not modelled.  len(...[0]) raises
\* IndexError on the empty mapping.
generate_html_visualization(seqs, diffs, gaps, ambiguous, seq_names) ==
    IF Len(seqs) = 0 THEN [outcome |-> "IndexError", cells |-> <<>>]
    ELSE LET align_len == Len(Values(seqs)[1])
             diff_set  == {diffs[k] : k \in 1..Len(diffs)}
             ambig_set == {ambiguous[k] : k \in 1..Len(ambiguous)}
             row(name) ==
                 LET seq == GetItem(seqs, name)
                     n   == IF Len(seq) < align_len THEN Len(seq) ELSE align_len
                 IN [p \in 1..n |->
                        [class |-> cell_class(p - 1, seq[p], ambig_set, diff_set),
                         base  |-> seq[p]]]
         IN [outcome |-> "returned",
             cells   |-> [k \in 1..Len(seq_names) |-> row(seq_names[k])]]

----------------------------------------------------------------------------
(* Summary statistics of the single-summary variant                        *)
(* (alignment_viewer_with_aligner.py, generate_html_visualization)         *)

\* len(list(sequences.values())[0])
align_len_of(seqs) == Len(Values(seqs)[1])

\* usable_positions = align_len - len(gap_positions) - len(ambiguous_positions)
summary_usable_positions(align_len, gaps, ambiguous) ==
    align_len - Len(gaps) - Len(ambiguous)

\* 100 * (1 - len(differences)/usable_positions), shown if usable_positions > 0
summary_identity(diffs, usable_positions) ==
    LET q    == Frac(Len(diffs), usable_positions)
        diff == Frac(q.den - q.num, q.den)
    IN Frac(100 * diff.num, diff.den)

----------------------------------------------------------------------------
(* Inputs: rectangular alignments within the bounds *)

Shapes == {sh \in (0..MaxSeqs) \X (0..MaxLen) : sh[1] * sh[2] <= MaxCells}

\* identifier orders: s1, s2, ..., sn or sn, ..., s2, s1
MakeAlignment(n, reversed, rows) ==
    [k \in 1..n |-> [name |-> IF reversed THEN Name(n + 1 - k) ELSE Name(k),
                     seq  |-> rows[k]]]

\* the aligner wrapper has not been called.  Next to the returned pair
\* (aligned_content, error) the record keeps whether an os.unlink raised
\* inside the wrapper, how the run of the tool really ended (cause),
\* whether the tool wrote the '.aligned' file, whether the first run of the
\* tool exited non-zero and whether the wrapper ran the tool a second time.
NotAligned ==
    [called |-> FALSE, aligned_content |-> <<>>, content_is_none |-> TRUE, error |-> "None",
     unlink_raised |-> FALSE, cause |-> "none", wrote |-> FALSE,
     first_nonzero |-> FALSE, v3_tried |-> FALSE]

\* neither engine function has been called, nothing is rendered
EngineIdle ==
    /\ fd_outcome = "not_called"
    /\ differences = <<>>
    /\ gap_positions = <<>>
    /\ ambiguous_positions = <<>>
    /\ cpd_outcome = "not_called"
    /\ pairwise_distances = <<>>
    /\ distance_matrix = <<>>
    /\ seq_names_ordered = <<>>
    /\ html_content = [outcome |-> "not_called", cells |-> <<>>]

\* the engine is called directly, outside the upload flow
FlowIdle ==
    /\ pc = "direct"
    /\ content = <<>>
    /\ settings = [auto_align |-> FALSE, alignment_tool |-> "MAFFT (recommended)"]
    /\ files = {}
    /\ aligned = NotAligned
    /\ shown = <<>>

\* the alignment {"s1": "ACGT-N", "s2": "ACTTAN"}
ExampleAlignment ==
    << [name |-> "s1", seq |-> <<"A", "C", "G", "T", "-", "N">>],
       [name |-> "s2", seq |-> <<"A", "C", "T", "T", "A", "N">>] >>

Init ==
    /\ \/ \E sh \in Shapes, reversed \in BOOLEAN :
            \E rows \in [1..sh[1] -> [1..sh[2] -> Alphabet]] :
               /\ (reversed => sh[1] >= 2)
               /\ sequences = MakeAlignment(sh[1], reversed, rows)
       \/ sequences = ExampleAlignment
    /\ EngineIdle
    /\ FlowIdle

----------------------------------------------------------------------------
(* Operations *)

\* FindDifferences storing the uppercased bases back into the mapping
FindDifferences_uppercasing_input ==
    LET r == find_differences(sequences)
    IN /\ fd_outcome' = r.outcome
       /\ IF r.outcome = "returned"
          THEN /\ differences' = r.differences
               /\ gap_positions' = r.gap_positions
               /\ ambiguous_positions' = r.ambiguous_positions
          ELSE UNCHANGED <<differences, gap_positions, ambiguous_positions>>
       /\ sequences' = [k \in 1..Len(sequences) |->
                          [sequences[k] EXCEPT !.seq =
                              [p \in 1..Len(sequences[k].seq) |-> upper(sequences[k].seq[p])]]]
       /\ UNCHANGED <<cpd_outcome, pairwise_distances, distance_matrix,
                      seq_names_ordered, html_content>>
       /\ UNCHANGED flow_vars

\* differences, gap_positions, ambiguous_positions = find_differences(sequences)
FindDifferences ==
    LET r == find_differences(sequences)
    IN /\ fd_outcome' = r.outcome
       /\ IF r.outcome = "returned"
          THEN /\ differences' = r.differences
               /\ gap_positions' = r.gap_positions
               /\ ambiguous_positions' = r.ambiguous_positions
          ELSE UNCHANGED <<differences, gap_positions, ambiguous_positions>>
       /\ UNCHANGED <<sequences, cpd_outcome, pairwise_distances, distance_matrix,
                      seq_names_ordered, html_content>>
       /\ UNCHANGED flow_vars

\* pairwise_distances, distance_matrix, seq_names_ordered = calculate_pairwise_distances(sequences)
CalculatePairwiseDistances ==
    LET r == calculate_pairwise_distances(sequences)
    IN /\ cpd_outcome' = r.outcome
       /\ IF r.outcome = "returned"
          THEN /\ pairwise_distances' = r.pairwise_distances
               /\ distance_matrix' = r.distance_matrix
               /\ seq_names_ordered' = r.seq_names
          ELSE UNCHANGED <<pairwise_distances, distance_matrix, seq_names_ordered>>
       /\ UNCHANGED <<sequences, fd_outcome, differences, gap_positions,
                      ambiguous_positions, html_content>>
       /\ UNCHANGED flow_vars

Next == FindDifferences \/ CalculatePairwiseDistances

Spec == Init /\ [][Next]_vars

----------------------------------------------------------------------------
(* The engine and the view on small alignments over ViewAlphabet *)

ViewShapes == {sh \in (0..MaxSeqs) \X (0..MaxLen) : sh[1] * sh[2] <= MaxViewCells}

InitView ==
    /\ \E sh \in ViewShapes :
          \E rows \in [1..sh[1] -> [1..sh[2] -> ViewAlphabet]] :
             sequences = MakeAlignment(sh[1], FALSE, rows)
    /\ EngineIdle
    /\ FlowIdle

\* html_content = generate_html_visualization(sequences, differences, gap_positions,
\*     ambiguous_positions, pairwise_distances, distance_matrix, seq_names_ordered)
GenerateHtmlVisualization ==
    /\ fd_outcome = "returned"
    /\ cpd_outcome = "returned"
    /\ html_content' = generate_html_visualization(sequences, differences, gap_positions,
                                                   ambiguous_positions, seq_names_ordered)
    /\ UNCHANGED <<sequences, fd_outcome, differences, gap_positions, ambiguous_positions,
                   cpd_outcome, pairwise_distances, distance_matrix, seq_names_ordered>>
    /\ UNCHANGED flow_vars

NextView == FindDifferences \/ CalculatePairwiseDistances \/ GenerateHtmlVisualization

SpecView == InitView /\ [][NextView]_vars

----------------------------------------------------------------------------
(* The upload flow of the app (source lines 600-688) *)

\* the lines the files are made of: two headers, two sequence lines of
\* different length, one of them with a trailing blank
LineSet == { <<">", "x">>, <<">", "y">>, <<"A", " ">>, <<"A", "C">> }

\* '\n'.join(lines)
RECURSIVE JoinLines(_)
JoinLines(lines) ==
    IF lines = <<>> THEN <<>>
    ELSE IF Len(lines) = 1 THEN lines[1]
    ELSE lines[1] \o <<"\n">> \o JoinLines(Tail(lines))

Contents == {JoinLines(ls) : ls \in UNION {[1..n -> LineSet] : n \in 0..MaxLines}}

Tools == {"MAFFT (recommended)", "MUSCLE"}

\* a file has been uploaded; nothing has run yet
InitFlow ==
    /\ pc = "uploaded"
    /\ content \in Contents
    /\ settings \in [auto_align : BOOLEAN, alignment_tool : Tools]
    /\ files = {}
    /\ aligned = NotAligned
    /\ shown = <<>>
    /\ sequences = <<>>
    /\ EngineIdle

\* the truth value of the returned error: None and '' are false
Truthy(error) == error # "None" /\ error # ""

engine_vars == <<fd_outcome, differences, gap_positions, ambiguous_positions,
                 cpd_outcome, pairwise_distances, distance_matrix, seq_names_ordered,
                 html_content>>

\* source lines 604-616 and 640-644: parse, count check, alignment check
ParseAndCheck ==
    /\ pc = "uploaded"
    /\ LET parsed == read_aligned_fasta_from_string(content)
       IN /\ sequences' = parsed
          /\ IF Len(parsed) = 0
             THEN /\ shown' = Append(shown, "error: No sequences found in file")
                  /\ pc' = "end"
             ELSE IF Len(parsed) < 2
             THEN /\ shown' = Append(shown, "error: Need at least 2 sequences to compare")
                  /\ pc' = "end"
             ELSE IF check_if_aligned(parsed)
             THEN /\ shown' = Append(shown, "success: Sequences are already aligned")
                  /\ pc' = "analyse"
             ELSE IF settings.auto_align
             THEN /\ shown' = Append(shown, "info: Sequences are not aligned. Aligning now...")
                  /\ pc' = "align"
             ELSE /\ shown' = Append(shown, "warning: Sequences are not aligned.")
                  /\ pc' = "stopped"
    /\ UNCHANGED <<content, settings, files, aligned>>
    /\ UNCHANGED engine_vars

\* how the run of the tool really ended
Cause(run, wrote, read) ==
    CASE run = "FileNotFoundError" -> "executable missing"
      [] run = "TimeoutExpired"    -> "timeout"
      [] run = "nonzero"           -> "non-zero exit"
      [] run = "zero" /\ ~wrote    -> "no output file"
      [] run = "zero" /\ wrote /\ read = "unreadable" -> "unreadable output"
      [] OTHER                     -> "ok"

\* source lines 626-639: the handling of (aligned_content, error)
AfterAlign(r, cause, wrote, first_nonzero) ==
    /\ files' = r.files
    /\ aligned' = [called |-> TRUE, aligned_content |-> r.aligned_content,
                   content_is_none |-> r.content_is_none, error |-> r.error,
                   unlink_raised |-> r.raised, cause |-> cause, wrote |-> wrote,
                   first_nonzero |-> first_nonzero, v3_tried |-> r.v3_tried]
    /\ IF Truthy(r.error)
       THEN /\ shown' = Append(shown, "error: Alignment failed")
            /\ pc' = "stopped"
            /\ UNCHANGED sequences
       ELSE IF r.content_is_none
       THEN /\ shown' = Append(Append(shown, "success: Alignment complete!"),
                               "error: Error processing file")
            /\ pc' = "exception"
            /\ UNCHANGED sequences
       ELSE /\ shown' = Append(shown, "success: Alignment complete!")
            /\ sequences' = read_aligned_fasta_from_string(r.aligned_content)
            /\ pc' = "analyse"
    /\ UNCHANGED <<content, settings>>
    /\ UNCHANGED engine_vars

\* source lines 621-622: aligned_content, error = align_sequences_mafft(content)
AlignMafft ==
    /\ pc = "align"
    /\ settings.alignment_tool = "MAFFT (recommended)"
    /\ \E run \in RunOutcomes :
          \E out \in (IF run = "zero" THEN Contents ELSE {<<>>}) :
             AfterAlign(align_sequences_mafft(files, run, out), Cause(run, TRUE, "ok"), FALSE,
                        run = "nonzero")

\* source lines 623-624: aligned_content, error = align_sequences_muscle(content)
AlignMuscle ==
    /\ pc = "align"
    /\ settings.alignment_tool # "MAFFT (recommended)"
    /\ \E run1, run2 \in RunOutcomes, wrote1, wrote2 \in BOOLEAN, read \in ReadOutcomes :
          /\ run1 = "FileNotFoundError" => ~wrote1
          /\ run2 = "FileNotFoundError" => ~wrote2
          /\ run1 # "nonzero" => (run2 = "zero" /\ ~wrote2)
          /\ LET run   == IF run1 = "nonzero" THEN run2 ELSE run1
                 wrote == wrote1 \/ wrote2
                 reads == run = "zero" /\ wrote /\ read = "ok"
             IN /\ (run # "zero" \/ ~wrote) => read = "ok"
                /\ \E out \in (IF reads THEN Contents ELSE {<<>>}) :
                      AfterAlign(align_sequences_muscle(files, run1, wrote1, run2, wrote2,
                                                        read, out),
                                 Cause(run, wrote, read), wrote, run1 = "nonzero")

\* source lines 646-684: the two engine calls, the sidebar, the view; an
\* exception ends the run in the handler of line 686
Analyse ==
    /\ pc = "analyse"
    /\ LET fd  == find_differences(sequences)
           cpd == calculate_pairwise_distances(sequences)
       IN /\ fd_outcome' = fd.outcome
          /\ IF fd.outcome # "returned"
             THEN /\ UNCHANGED <<differences, gap_positions, ambiguous_positions,
                                 cpd_outcome, pairwise_distances, distance_matrix,
                                 seq_names_ordered, html_content>>
                  /\ shown' = Append(shown, "error: Error processing file")
                  /\ pc' = "exception"
             ELSE /\ differences' = fd.differences
                  /\ gap_positions' = fd.gap_positions
                  /\ ambiguous_positions' = fd.ambiguous_positions
                  /\ cpd_outcome' = cpd.outcome
                  /\ IF cpd.outcome # "returned"
                     THEN /\ UNCHANGED <<pairwise_distances, distance_matrix,
                                         seq_names_ordered, html_content>>
                          /\ shown' = Append(shown, "error: Error processing file")
                          /\ pc' = "exception"
                     ELSE /\ pairwise_distances' = cpd.pairwise_distances
                          /\ distance_matrix' = cpd.distance_matrix
                          /\ seq_names_ordered' = cpd.seq_names
                          /\ IF Len(sequences) = 0       \* line 655 raises IndexError
                             THEN /\ UNCHANGED html_content
                                  /\ shown' = Append(shown, "error: Error processing file")
                                  /\ pc' = "exception"
                             ELSE /\ html_content' =
                                        generate_html_visualization(sequences,
                                            fd.differences, fd.gap_positions,
                                            fd.ambiguous_positions, cpd.seq_names)
                                  /\ shown' = shown
                                  /\ pc' = "done"
    /\ UNCHANGED <<sequences, content, settings, files, aligned>>

NextFlow == ParseAndCheck \/ AlignMafft \/ AlignMuscle \/ Analyse

SpecFlow == InitFlow /\ [][NextFlow]_vars

----------------------------------------------------------------------------
(* Vocabulary of the properties, stated on the input alignment itself *)

NumSeqs == Len(sequences)

\* the alignment length L (0 for the empty alignment)
AlignLen == IF NumSeqs = 0 THEN 0 ELSE Len(sequences[1].seq)

Columns == 0..(AlignLen - 1)

\* the uppercased base of the k-th sequence at column p
BaseAt(k, p) == upper(sequences[k].seq[p + 1])

IsGapAt(k, p) == BaseAt(k, p) = "-"

IsAmbiguousAt(k, p) == BaseAt(k, p) \in {"R", "Y", "S", "W", "K", "M", "B", "D", "H", "V", "N"}

\* column p is usable for the pair of the a-th and the b-th sequence
UsableFor(a, b, p) ==
    /\ ~IsGapAt(a, p) /\ ~IsGapAt(b, p)
    /\ ~IsAmbiguousAt(a, p) /\ ~IsAmbiguousAt(b, p)

UsableColumns(a, b) == {p \in Columns : UsableFor(a, b, p)}

SnpColumns(a, b) == {p \in UsableColumns(a, b) : BaseAt(a, p) # BaseAt(b, p)}

\* the records of the pair (a-th sequence, b-th sequence), in that order
RecordsOf(a, b) ==
    {r \in 1..Len(pairwise_distances) :
        /\ pairwise_distances[r].seq1 = sequences[a].name
        /\ pairwise_distances[r].seq2 = sequences[b].name}

InList(list, x) == \E k \in 1..Len(list) : list[k] = x

FdReturned == fd_outcome = "returned"

CpdReturned == cpd_outcome = "returned"

----------------------------------------------------------------------------
(* C1: for every pair of sequences of the alignment, the pair's record has  *)
(* usable_positions equal to the number of columns where neither uppercased *)
(* base is a gap or an ambiguity code, and snps equal to the number of      *)
(* those columns where the two uppercased bases differ.                     *)
C1_PairCounts ==
    CpdReturned =>
        \A a, b \in 1..NumSeqs :
            a < b =>
                /\ RecordsOf(a, b) # {}
                /\ \A r \in RecordsOf(a, b) :
                      /\ pairwise_distances[r].usable_positions
                            = Cardinality(UsableColumns(a, b))
                      /\ pairwise_distances[r].snps = Cardinality(SnpColumns(a, b))

\* a pair with a gap column, an ambiguity column, a usable SNP column, all counted
C1_Witness ==
    /\ CpdReturned
    /\ \E a, b \in 1..NumSeqs :
          /\ a < b
          /\ \E p \in Columns : IsGapAt(a, p) \/ IsGapAt(b, p)
          /\ \E p \in Columns : ~IsGapAt(a, p) /\ ~IsGapAt(b, p)
                                /\ (IsAmbiguousAt(a, p) \/ IsAmbiguousAt(b, p))
          /\ \E r \in RecordsOf(a, b) :
                /\ pairwise_distances[r].snps = 1
                /\ pairwise_distances[r].usable_positions = 1

(* C2: for n >= 1, column p is in gap_positions iff some sequence has a gap *)
(* at p; in ambiguous_positions iff none has a gap and some has an          *)
(* ambiguity code; in differences iff none has a gap or ambiguity code and  *)
(* the uppercased bases are not all identical; in no list otherwise.        *)
ColumnHasGap(p) == \E k \in 1..NumSeqs : IsGapAt(k, p)

ColumnHasAmbiguity(p) == \E k \in 1..NumSeqs : IsAmbiguousAt(k, p)

ColumnVaries(p) == \E a, b \in 1..NumSeqs : BaseAt(a, p) # BaseAt(b, p)

C2_ColumnClassification ==
    (FdReturned /\ NumSeqs >= 1) =>
        \A p \in Columns :
            /\ InList(gap_positions, p) <=> ColumnHasGap(p)
            /\ InList(ambiguous_positions, p)
                  <=> (~ColumnHasGap(p) /\ ColumnHasAmbiguity(p))
            /\ InList(differences, p)
                  <=> (~ColumnHasGap(p) /\ ~ColumnHasAmbiguity(p) /\ ColumnVaries(p))

\* one column of each kind where the priorities decide: gap with ambiguity,
\* ambiguity with variation, and plain variation
C2_Witness ==
    /\ FdReturned
    /\ \E p \in Columns : ColumnHasGap(p) /\ ColumnHasAmbiguity(p)
                            /\ InList(gap_positions, p)
    /\ \E p \in Columns : ColumnHasAmbiguity(p) /\ ColumnVaries(p)
                            /\ InList(ambiguous_positions, p)
    /\ \E p \in Columns : InList(differences, p)

(* C3: the three lists returned by find_differences are pairwise disjoint   *)
(* and every index in them lies in [0, L).                                  *)
ListSet(list) == {list[k] : k \in 1..Len(list)}

C3_ListsDisjoint ==
    FdReturned =>
        /\ ListSet(gap_positions) \cap ListSet(ambiguous_positions) = {}
        /\ ListSet(gap_positions) \cap ListSet(differences) = {}
        /\ ListSet(ambiguous_positions) \cap ListSet(differences) = {}
        /\ (ListSet(gap_positions) \cup ListSet(ambiguous_positions)
               \cup ListSet(differences)) \subseteq Columns

\* all three lists non-empty and covering every column, one of the columns
\* having a gap and an ambiguity code at once
C3_Witness ==
    /\ FdReturned
    /\ gap_positions # <<>> /\ ambiguous_positions # <<>> /\ differences # <<>>
    /\ Len(gap_positions) + Len(ambiguous_positions) + Len(differences) = AlignLen
    /\ \E p \in Columns : ColumnHasGap(p) /\ ColumnHasAmbiguity(p)

(* C4: in every pair record, 0 <= snps <= usable_positions <= L.            *)
C4_CountBounds ==
    CpdReturned =>
        \A r \in 1..Len(pairwise_distances) :
            /\ 0 <= pairwise_distances[r].snps
            /\ pairwise_distances[r].snps <= pairwise_distances[r].usable_positions
            /\ pairwise_distances[r].usable_positions <= AlignLen

\* records at both ends of the range: snps = usable_positions = L > 0 in one,
\* snps = 0 < usable_positions < L in another
C4_Witness ==
    /\ CpdReturned
    /\ AlignLen > 0
    /\ \E r \in 1..Len(pairwise_distances) :
          /\ pairwise_distances[r].snps = AlignLen
          /\ pairwise_distances[r].usable_positions = AlignLen
    /\ \E r \in 1..Len(pairwise_distances) :
          /\ pairwise_distances[r].snps = 0
          /\ 0 < pairwise_distances[r].usable_positions
          /\ pairwise_distances[r].usable_positions < AlignLen

(* C5: the distance matrix is symmetric and agrees with the records: for    *)
(* every record matrix[seq1][seq2] = matrix[seq2][seq1] = snps; every       *)
(* ordered pair of distinct identifiers has an entry; there is no diagonal  *)
(* entry.                                                                   *)
Identifiers == {sequences[k].name : k \in 1..NumSeqs}

C5_MatrixSymmetric ==
    CpdReturned =>
        /\ DOMAIN distance_matrix = Identifiers
        /\ \A r \in 1..Len(pairwise_distances) :
              LET rec == pairwise_distances[r]
              IN /\ rec.seq2 \in DOMAIN distance_matrix[rec.seq1]
                 /\ rec.seq1 \in DOMAIN distance_matrix[rec.seq2]
                 /\ distance_matrix[rec.seq1][rec.seq2] = rec.snps
                 /\ distance_matrix[rec.seq2][rec.seq1] = rec.snps
        /\ \A x \in Identifiers :
              DOMAIN distance_matrix[x] = Identifiers \ {x}
        /\ \A x, y \in Identifiers :
              x # y => distance_matrix[x][y] = distance_matrix[y][x]

\* three sequences whose three distances are all different
C5_Witness ==
    /\ CpdReturned
    /\ NumSeqs = 3
    /\ Cardinality({pairwise_distances[r].snps : r \in 1..Len(pairwise_distances)}) = 3
    /\ distance_matrix[sequences[1].name][sequences[3].name] = pairwise_distances[2].snps

(* C6: exactly n*(n-1)/2 records are emitted, one per unordered pair, in    *)
(* the lexicographic order of the index pairs (i, j), i < j, over the       *)
(* identifier order; seq1 precedes seq2 in that order in every record; the  *)
(* returned seq_names list is the identifier order.                         *)
IndexOfName(name) == CHOOSE k \in 1..NumSeqs : sequences[k].name = name

RecordHasIndex(r) ==
    /\ pairwise_distances[r].seq1 \in Identifiers
    /\ pairwise_distances[r].seq2 \in Identifiers

LexBefore(i1, j1, i2, j2) == i1 < i2 \/ (i1 = i2 /\ j1 < j2)

C6_RecordOrder ==
    CpdReturned =>
        /\ 2 * Len(pairwise_distances) = NumSeqs * (NumSeqs - 1)
        /\ \A r \in 1..Len(pairwise_distances) :
              /\ RecordHasIndex(r)
              /\ IndexOfName(pairwise_distances[r].seq1)
                    < IndexOfName(pairwise_distances[r].seq2)
        /\ \A r1, r2 \in 1..Len(pairwise_distances) :
              r1 < r2 =>
                 LexBefore(IndexOfName(pairwise_distances[r1].seq1),
                           IndexOfName(pairwise_distances[r1].seq2),
                           IndexOfName(pairwise_distances[r2].seq1),
                           IndexOfName(pairwise_distances[r2].seq2))
        /\ \A a, b \in 1..NumSeqs : a < b => Cardinality(RecordsOf(a, b)) = 1
        /\ seq_names_ordered = [k \in 1..NumSeqs |-> sequences[k].name]

\* three sequences inserted in the order s3, s2, s1: three records, (s3,s2),
\* (s3,s1), (s2,s1)
C6_Witness ==
    /\ CpdReturned
    /\ NumSeqs = 3
    /\ sequences[1].name = "s3"
    /\ Len(pairwise_distances) = 3
    /\ pairwise_distances[2].seq1 = "s3" /\ pairwise_distances[2].seq2 = "s1"
    /\ pairwise_distances[3].seq1 = "s2" /\ pairwise_distances[3].seq2 = "s1"

(* C7: identity = 100 * (1 - snps / usable_positions) when                  *)
(* usable_positions > 0, and 0 when usable_positions = 0, the call          *)
(* returning without error; always 0 <= identity <= 100.  The fraction      *)
(* identity = num / den is compared by cross-multiplication.                *)
C7_Identity ==
    (cpd_outcome # "not_called") =>
        /\ CpdReturned
        /\ \A r \in 1..Len(pairwise_distances) :
              LET rec == pairwise_distances[r]
              IN /\ rec.identity.den > 0
                 /\ rec.usable_positions > 0 =>
                       rec.identity.num * rec.usable_positions
                          = 100 * (rec.usable_positions - rec.snps) * rec.identity.den
                 /\ rec.usable_positions = 0 => rec.identity.num = 0
                 /\ 0 <= rec.identity.num
                 /\ rec.identity.num <= 100 * rec.identity.den

\* one pair gapped or ambiguous at every column (identity 0 by definition) next
\* to a pair with one SNP in two usable columns (identity 50)
C7_Witness ==
    /\ CpdReturned
    /\ AlignLen > 0
    /\ \E r \in 1..Len(pairwise_distances) :
          /\ pairwise_distances[r].usable_positions = 0
          /\ pairwise_distances[r].identity = [num |-> 0, den |-> 1]
    /\ \E r \in 1..Len(pairwise_distances) :
          /\ pairwise_distances[r].usable_positions = 2
          /\ pairwise_distances[r].snps = 1
          /\ pairwise_distances[r].identity = [num |-> 50, den |-> 1]

(* C8 as stated: every pair of identical sequences without gaps and         *)
(* ambiguity codes, of any length L >= 0, has snps = 0, identity = 100 and  *)
(* matrix entries 0.                                                        *)
IsClean(k) == \A p \in Columns : ~IsGapAt(k, p) /\ ~IsAmbiguousAt(k, p)

IdenticalClean(a, b) ==
    /\ sequences[a].seq = sequences[b].seq
    /\ IsClean(a) /\ IsClean(b)

MatrixEntriesAre(a, b, v) ==
    /\ distance_matrix[sequences[a].name][sequences[b].name] = v
    /\ distance_matrix[sequences[b].name][sequences[a].name] = v

C8_IdenticalIs100 ==
    CpdReturned =>
        \A a, b \in 1..NumSeqs :
            (a < b /\ IdenticalClean(a, b)) =>
                /\ MatrixEntriesAre(a, b, 0)
                /\ \A r \in RecordsOf(a, b) :
                      /\ pairwise_distances[r].snps = 0
                      /\ pairwise_distances[r].identity = [num |-> 100, den |-> 1]

(* C8 amended: every pair of identical sequences without gaps and ambiguity *)
(* codes has snps = 0 and matrix entries 0; its identity is 100 when        *)
(* L >= 1 and 0 when L = 0.                                                 *)
C8_IdenticalAmended ==
    CpdReturned =>
        \A a, b \in 1..NumSeqs :
            (a < b /\ IdenticalClean(a, b)) =>
                /\ MatrixEntriesAre(a, b, 0)
                /\ RecordsOf(a, b) # {}
                /\ \A r \in RecordsOf(a, b) :
                      /\ pairwise_distances[r].snps = 0
                      /\ pairwise_distances[r].identity
                            = [num |-> IF AlignLen >= 1 THEN 100 ELSE 0, den |-> 1]

\* three identical sequences of two columns: three records with identity 100
C8_Witness ==
    /\ CpdReturned
    /\ NumSeqs = 3 /\ AlignLen = 2
    /\ \A a, b \in 1..NumSeqs : a < b => IdenticalClean(a, b)
    /\ Len(pairwise_distances) = 3
    /\ \A r \in 1..Len(pairwise_distances) :
          pairwise_distances[r].identity = [num |-> 100, den |-> 1]

(* C9: a pair whose uppercased bases differ at every usable column has      *)
(* snps = usable_positions and identity = 0.                                *)
DifferEverywhere(a, b) == \A p \in UsableColumns(a, b) : BaseAt(a, p) # BaseAt(b, p)

C9_AllDifferentIsZero ==
    CpdReturned =>
        \A a, b \in 1..NumSeqs :
            (a < b /\ DifferEverywhere(a, b)) =>
                /\ RecordsOf(a, b) # {}
                /\ \A r \in RecordsOf(a, b) :
                      /\ pairwise_distances[r].snps = pairwise_distances[r].usable_positions
                      /\ pairwise_distances[r].identity = [num |-> 0, den |-> 1]

\* a pair with two usable columns, both different, and an ambiguity column
C9_Witness ==
    /\ CpdReturned
    /\ \E a, b \in 1..NumSeqs :
          /\ a < b /\ DifferEverywhere(a, b)
          /\ Cardinality(UsableColumns(a, b)) = 2
          /\ \E p \in Columns : IsAmbiguousAt(a, p) /\ ~IsGapAt(b, p)
          /\ \E r \in RecordsOf(a, b) : pairwise_distances[r].snps = 2

(* C10 as stated: calculate_pairwise_distances on fewer than 2 sequences    *)
(* ends in an error and returns no result.                                  *)
C10_RaisesOnFewSequences ==
    (NumSeqs < 2 /\ cpd_outcome # "not_called") => cpd_outcome # "returned"

(* C10 amended: calculate_pairwise_distances on fewer than 2 sequences      *)
(* raises nothing: it returns no records, a matrix with one empty row per   *)
(* identifier, and the identifier list.                                     *)
C10_ReturnsEmptyOnFewSequences ==
    (NumSeqs < 2 /\ cpd_outcome # "not_called") =>
        /\ cpd_outcome = "returned"
        /\ pairwise_distances = <<>>
        /\ DOMAIN distance_matrix = Identifiers
        /\ \A x \in Identifiers : DOMAIN distance_matrix[x] = {}
        /\ seq_names_ordered = [k \in 1..NumSeqs |-> sequences[k].name]

\* the call on a single sequence has returned
C10_Witness ==
    /\ NumSeqs = 1
    /\ AlignLen > 0
    /\ cpd_outcome = "returned"
    /\ pairwise_distances = <<>>
    /\ DOMAIN distance_matrix = {sequences[1].name}

(* C12: find_differences on the empty alignment returns three empty lists   *)
(* without error; on a single sequence the variant list is empty,           *)
(* gap_positions is exactly the columns where the sequence is '-' and       *)
(* ambiguous_positions exactly the columns where it has an ambiguity code.  *)
IsListOfSet(list, set) ==
    /\ ListSet(list) = set
    /\ Len(list) = Cardinality(set)

C12_EmptyAndSingle ==
    /\ (NumSeqs = 0 /\ fd_outcome # "not_called") =>
          /\ FdReturned
          /\ differences = <<>> /\ gap_positions = <<>> /\ ambiguous_positions = <<>>
    /\ (NumSeqs = 1 /\ fd_outcome # "not_called") =>
          /\ FdReturned
          /\ differences = <<>>
          /\ IsListOfSet(gap_positions, {p \in Columns : IsGapAt(1, p)})
          /\ IsListOfSet(ambiguous_positions, {p \in Columns : IsAmbiguousAt(1, p)})

\* a single sequence with a gap, an ambiguity code and a plain base
C12_Witness ==
    /\ NumSeqs = 1 /\ AlignLen = 3
    /\ FdReturned
    /\ Len(gap_positions) = 1 /\ Len(ambiguous_positions) = 1

\* the empty alignment, classified
C12_WitnessEmpty ==
    /\ NumSeqs = 0
    /\ FdReturned

(* C14: find_differences and calculate_pairwise_distances leave the input   *)
(* alignment as it was: same identifiers, same order, same strings.         *)
C14_InputUnchanged == [][sequences' = sequences]_vars

\* both functions have run on an alignment with lower-case characters, which
\* are still there
C14_Witness ==
    /\ FdReturned /\ CpdReturned
    /\ NumSeqs >= 2
    /\ \E k \in 1..NumSeqs, p \in Columns :
          sequences[k].seq[p + 1] \in DOMAIN LowerToUpper

(* C16: for s1 = "ACGT-N", s2 = "ACTTAN", find_differences returns          *)
(* gap_positions = [4], ambiguous_positions = [5], differences = [2], and   *)
(* calculate_pairwise_distances one record with usable_positions = 4,       *)
(* snps = 1 and identity = 75.                                              *)
C16_Example ==
    (sequences = ExampleAlignment) =>
        /\ fd_outcome # "not_called" =>
              /\ FdReturned
              /\ gap_positions = <<4>>
              /\ ambiguous_positions = <<5>>
              /\ differences = <<2>>
        /\ cpd_outcome # "not_called" =>
              /\ CpdReturned
              /\ Len(pairwise_distances) = 1
              /\ pairwise_distances[1].seq1 = "s1"
              /\ pairwise_distances[1].seq2 = "s2"
              /\ pairwise_distances[1].usable_positions = 4
              /\ pairwise_distances[1].snps = 1
              /\ pairwise_distances[1].identity = [num |-> 75, den |-> 1]

\* both functions have run on the example
C16_Witness ==
    /\ sequences = ExampleAlignment
    /\ FdReturned /\ CpdReturned

(* C17: for two sequences the summary of the single-summary variant and the *)
(* pair record agree: len(differences) = snps,                              *)
(* L - len(gap_positions) - len(ambiguous_positions) = usable_positions,    *)
(* and, when that count is > 0, the summary identity = the record identity. *)
C17_SummaryAgrees ==
    (NumSeqs = 2 /\ FdReturned /\ CpdReturned) =>
        LET usable == summary_usable_positions(align_len_of(sequences),
                                               gap_positions, ambiguous_positions)
        IN /\ Len(pairwise_distances) = 1
           /\ Len(differences) = pairwise_distances[1].snps
           /\ usable = pairwise_distances[1].usable_positions
           /\ usable > 0 =>
                 summary_identity(differences, usable) = pairwise_distances[1].identity

\* two sequences of three columns: a gap column, an SNP and a match that
\* differs in case only; identity 50 in both variants
C17_Witness ==
    /\ NumSeqs = 2 /\ AlignLen = 3
    /\ FdReturned /\ CpdReturned
    /\ Len(gap_positions) = 1
    /\ Len(differences) = 1
    /\ \E p \in Columns : sequences[1].seq[p + 1] # sequences[2].seq[p + 1]
                            /\ BaseAt(1, p) = BaseAt(2, p)
    /\ pairwise_distances[1].identity = [num |-> 50, den |-> 1]

(* C19: for n >= 2, L - |gap_positions| - |ambiguous_positions| is a lower  *)
(* bound on every pair's usable_positions; every column of the variant list *)
(* is an SNP of at least one pair; every pair's snps is at most             *)
(* |differences| + |gap_positions| + |ambiguous_positions|.                 *)
C19_AlignmentWideBounds ==
    (NumSeqs >= 2 /\ FdReturned /\ CpdReturned) =>
        /\ \A r \in 1..Len(pairwise_distances) :
              /\ summary_usable_positions(AlignLen, gap_positions, ambiguous_positions)
                    <= pairwise_distances[r].usable_positions
              /\ pairwise_distances[r].snps
                    <= Len(differences) + Len(gap_positions) + Len(ambiguous_positions)
        /\ \A d \in 1..Len(differences) :
              \E a, b \in 1..NumSeqs :
                  /\ a < b
                  /\ differences[d] \in SnpColumns(a, b)
                  /\ \E r \in RecordsOf(a, b) : pairwise_distances[r].snps >= 1

\* three sequences: a pair has an SNP at a column that is a gap column because
\* of the third, so its snps exceed the number of variant columns
C19_Witness ==
    /\ NumSeqs = 3
    /\ FdReturned /\ CpdReturned
    /\ differences # <<>>
    /\ \E r \in 1..Len(pairwise_distances) :
          /\ pairwise_distances[r].snps > Len(differences)
          /\ pairwise_distances[r].usable_positions
                > summary_usable_positions(AlignLen, gap_positions, ambiguous_positions)

(* C13: changing the letter case of any subset of the characters of an     *)
(* alignment changes neither the three lists of find_differences nor any   *)
(* record or matrix entry of calculate_pairwise_distances.                 *)
Cells == {c \in (1..NumSeqs) \X (1..AlignLen) : TRUE}

\* the other case of a letter; the gap has none
OtherCase(c) ==
    IF c \in DOMAIN LowerToUpper THEN LowerToUpper[c]
    ELSE IF \E l \in DOMAIN LowerToUpper : LowerToUpper[l] = c
         THEN CHOOSE l \in DOMAIN LowerToUpper : LowerToUpper[l] = c
    ELSE c

\* the alignment with the case of the cells of S changed
CaseChanged(S) ==
    [k \in 1..NumSeqs |->
        [sequences[k] EXCEPT !.seq =
            [p \in 1..Len(sequences[k].seq) |->
                IF <<k, p>> \in S THEN OtherCase(sequences[k].seq[p])
                ELSE sequences[k].seq[p]]]]

C13_CaseInsensitive ==
    /\ FdReturned =>
          \A S \in SUBSET Cells :
              find_differences(CaseChanged(S))
                 = [outcome |-> "returned", differences |-> differences,
                    gap_positions |-> gap_positions,
                    ambiguous_positions |-> ambiguous_positions]
    /\ CpdReturned =>
          \A S \in SUBSET Cells :
              calculate_pairwise_distances(CaseChanged(S))
                 = [outcome |-> "returned", pairwise_distances |-> pairwise_distances,
                    distance_matrix |-> distance_matrix, seq_names |-> seq_names_ordered]

\* both functions have run on an alignment of mixed case with an SNP, a match
\* that differs in case only and a lower-case ambiguity code
C13_Witness ==
    /\ FdReturned /\ CpdReturned
    /\ NumSeqs = 2 /\ AlignLen = 2
    /\ \E p \in Columns : sequences[1].seq[p + 1] # sequences[2].seq[p + 1]
                            /\ BaseAt(1, p) = BaseAt(2, p)
    /\ \E k \in 1..NumSeqs, p \in Columns : sequences[k].seq[p + 1] = "n"
    /\ pairwise_distances[1].usable_positions = 1

(* C18: in the view rendered from the engine's outputs, every cell whose    *)
(* base is an ambiguity code, in either case, has class 'ambig', also when  *)
(* another sequence has a gap in the same column.                           *)
C18_AmbiguousCellsAreAmbig ==
    (html_content.outcome = "returned") =>
        \A k \in 1..NumSeqs, p \in Columns :
            IsAmbiguousAt(k, p) => html_content.cells[k][p + 1].class = "ambig"

(* C11 as stated: in every run of the upload flow the engine functions are *)
(* invoked only on a mapping with at least 2 sequences, all of one length, *)
(* also when the mapping was re-parsed from the aligner's output.          *)
EngineInvoked == fd_outcome # "not_called" \/ cpd_outcome # "not_called"

C11_EngineOnlyOnValidAlignment ==
    EngineInvoked =>
        /\ Len(sequences) >= 2
        /\ \A a, b \in 1..Len(sequences) : Len(sequences[a].seq) = Len(sequences[b].seq)

(* C20: on every path through align_sequences_mafft and                    *)
(* align_sequences_muscle that reaches the try block, neither the          *)
(* temporary input file nor the '.aligned' output file exists when the     *)
(* function returns, and no unlink raises.                                 *)
C20_TempFilesRemoved ==
    aligned.called => (files = {} /\ ~aligned.unlink_raised)

\* MUSCLE timed out after it had written the output file; both files are gone
C20_Witness ==
    /\ aligned.called
    /\ settings.alignment_tool = "MUSCLE"
    /\ aligned.cause = "timeout" /\ aligned.wrote
    /\ aligned.error = TimeoutMessage
    /\ files = {}

\* MAFFT succeeded: the input file was unlinked once, in the try block
C20_WitnessSuccess ==
    /\ aligned.called
    /\ settings.alignment_tool = "MAFFT (recommended)"
    /\ aligned.cause = "ok" /\ ~aligned.content_is_none
    /\ files = {}

(* C21 as stated: align_sequences_mafft and align_sequences_muscle report  *)
(* every failure of the tool run as a value: they return (content, None)   *)
(* only if the aligner exited with code 0 (for MUSCLE the v3 syntax is     *)
(* tried only after the v5 syntax exits non-zero), and otherwise           *)
(* (None, message) with a non-empty message that names the actual cause;   *)
(* the '... not found. Please install ...' message is returned only when   *)
(* the aligner executable itself is missing.                               *)
ToolName == IF settings.alignment_tool = "MAFFT (recommended)" THEN "MAFFT" ELSE "MUSCLE"

\* the causes with which the last run of the tool exited with code 0
ExitedZero == aligned.cause \in {"ok", "no output file", "unreadable output"}

C21_ReturnsPair ==
    /\ aligned.content_is_none <=> aligned.error # "None"
    /\ ~aligned.content_is_none => ExitedZero
    /\ aligned.v3_tried => aligned.first_nonzero
    /\ aligned.content_is_none => Truthy(aligned.error)

C21_MessageNamesCause ==
    /\ aligned.error = NotFoundMessage(ToolName) => aligned.cause = "executable missing"
    /\ aligned.error = TimeoutMessage => aligned.cause = "timeout"
    /\ aligned.error = FailedMessage(ToolName) => aligned.cause = "non-zero exit"
    /\ aligned.cause = "executable missing" => aligned.error = NotFoundMessage(ToolName)
    /\ aligned.cause = "timeout" => aligned.error = TimeoutMessage
    /\ aligned.cause = "non-zero exit" => aligned.error = FailedMessage(ToolName)

C21_FailuresReportedByCause ==
    aligned.called => (C21_ReturnsPair /\ C21_MessageNamesCause)

====
